---- MODULE Spec2Model ----
(***************************************************************************)
(* A model of torch/_inductor/kernel/flex_attention.py:                    *)
(*   - build_subgraph_buffer, the interpreter that binds the nodes of a    *)
(*     score-modification graph while it walks them (SpecInline);          *)
(*   - the forward kernel template and its launch grid (SpecFwd);          *)
(*   - the backward kernel template and its launch grid (SpecBwd);         *)
(*   - the candidates flex_attention_backward hands to the template        *)
(*     (SpecLower).                                                        *)
(* Each part has its own initial predicate and next-state relation over    *)
(* the variables below; the variables of the other parts stay idle.        *)
(***************************************************************************)
EXTENDS Integers, Sequences, FiniteSets, Bags, TLC

VARIABLES
    \* ---- build_subgraph_buffer ----
    nodes,            \* subgraph.graph_module.graph.nodes
    graph_type,       \* SubgraphType of the call
    call_args,        \* the lowering's *args, as handed to the call
    placeholder_inps, \* the sentinel TensorBoxes
    node_idx,         \* position of the for loop (1-based; next node to visit)
    cnt,              \* local cnt
    env,              \* local env: node position -> bound value
    args,             \* local args (re-bound by the call_function branch)
    outcome,          \* "running", "returned" or the exception raised
    subgraph_buffer,  \* the ComputedBuffer returned, NoBuffer before
    \* ---- forward kernel launch ----
    fwd,              \* launch parameters and read-only inputs
    fpc,              \* grid unit -> "entry", "loop", "store", "done"
    floc,             \* grid unit -> its registers
    OUT,              \* output buffer: flat address -> value
    LSE,              \* logsumexp buffer: flat address -> value
    fvisits,          \* log of the score elements handed to the modification,
                      \*   with the row-max before and after the iteration
    fwrites,          \* log of stores: records [buf, addr, unit, val]
    \* ---- backward kernel launch ----
    bwd,              \* launch parameters and read-only inputs
    bpc,              \* grid unit -> "entry", "dq_loop", "dq_store",
                      \*   "dkdv_loop", "dkdv_store", "done"
    bloc,             \* grid unit -> its registers
    DQ, DK, DV,       \* gradient buffers: flat address -> value
    bweights,         \* rebuilt probability weights: records
    bwrites,          \* log of stores: records [buf, addr, unit, blk_idx, nth]
    \* ---- flex_attention_backward, the loop over the configurations ----
    low,              \* dtype, head_dim, device capability, config.max_autotune
    lpc,              \* "configs", "choices", "done"
    configs,          \* local configs
    cfg_i,            \* position of "for BLOCK1, BLOCK2, ... in configs" (1-based)
    choices,          \* local choices: the kernels emitted
    rejected          \* the candidates whose kernel failed a tl.static_assert

inl_vars == <<nodes, graph_type, call_args, placeholder_inps, node_idx, cnt,
              env, args, outcome, subgraph_buffer>>
fwd_vars == <<fwd, fpc, floc, OUT, LSE, fvisits, fwrites>>
bwd_vars == <<bwd, bpc, bloc, DQ, DK, DV, bweights, bwrites>>
low_vars == <<low, lpc, configs, cfg_i, choices, rejected>>
vars == <<inl_vars, fwd_vars, bwd_vars, low_vars>>

Idle == "idle"
InlIdle ==
    /\ nodes = Idle /\ graph_type = Idle /\ call_args = Idle
    /\ placeholder_inps = Idle /\ node_idx = Idle /\ cnt = Idle /\ env = Idle
    /\ args = Idle /\ outcome = Idle /\ subgraph_buffer = Idle
FwdIdle ==
    /\ fwd = Idle /\ fpc = Idle /\ floc = Idle /\ OUT = Idle /\ LSE = Idle
    /\ fvisits = Idle /\ fwrites = Idle
BwdIdle ==
    /\ bwd = Idle /\ bpc = Idle /\ bloc = Idle /\ DQ = Idle /\ DK = Idle
    /\ DV = Idle /\ bweights = Idle /\ bwrites = Idle
LowIdle ==
    /\ low = Idle /\ lpc = Idle /\ configs = Idle /\ cfg_i = Idle
    /\ choices = Idle /\ rejected = Idle

Range(f) == {f[x] : x \in DOMAIN f}
Max(a, b) == IF a >= b THEN a ELSE b

(***************************************************************************)
(*                        build_subgraph_buffer                            *)
(***************************************************************************)

\* Bounds of the graphs explored.
MaxTail == 3
MaxLifted == 2

SubgraphType == {"FWD", "JOINT_FWD", "JOINT_BWD"}

\* A value of the IR: what kind of box it is, what its .data is, and the
\* device / dtype / size / inner data its StorageBox reports.
Value(box, data, dtype, inner) ==
    [box |-> box, data |-> data, device |-> "cuda", dtype |-> dtype,
     size |-> <<1>>, inner |-> inner]

create_placeholder(name, dtype) ==
    Value("TensorBox", "StorageBox", dtype, <<"InputBuffer", name>>)

\* The sentinels built by the two lowerings.
FwdPlaceholderInps ==
    << create_placeholder("score", "query_dtype"),
       create_placeholder("b", "int32"),
       create_placeholder("h", "int32"),
       create_placeholder("m", "int32"),
       create_placeholder("n", "int32") >>

JointPlaceholderInps ==
    FwdPlaceholderInps \o << create_placeholder("grad_score_mod", "query_dtype") >>

OtherBuffer(j) ==
    Value("TensorBox", "StorageBox", "float32", <<"other_buffers", ToString(j)>>)
Fixed(name) == Value("TensorBox", "StorageBox", "query_dtype", <<"arg", name>>)
Graph(name) == Value("Subgraph", "None", "None", <<"arg", name>>)

OtherBuffers(n) == [j \in 1..n |-> OtherBuffer(j - 1)]

\* fwd_args = [query, key, value, score_mod, *other_buffers]
FwdArgs(n) ==
    << Fixed("query"), Fixed("key"), Fixed("value"), Graph("subgraph") >>
        \o OtherBuffers(n)

\* bwd_args = [q, k, v, out, lse, grad_out, fw_graph, joint_graph, *other_buffers]
BwdArgs(n) ==
    << Fixed("query"), Fixed("key"), Fixed("value"), Fixed("out"),
       Fixed("logsumexp"), Fixed("grad_out"), Graph("fw_graph"),
       Graph("joint_graph") >> \o OtherBuffers(n)

index_to_other_buffers(c, gt) ==
    CASE gt = "FWD" -> c - 1
      [] gt = "JOINT_FWD" -> c + 3
      [] gt = "JOINT_BWD" -> c + 2

\* Python's tuple indexing with a non-negative index, 0-based.
InRange(tuple, i) == i >= 0 /\ i < Len(tuple)
At(tuple, i) == tuple[i + 1]

\* ---- the graphs ----
NoArg0 == [node |-> 0, tuple |-> <<>>]
NoRet == [box |-> "None", data |-> "None"]

\* node.args[0] of an output node: the bare node of the single output, or the
\* tuple [grad_score, None, None, None, None] of a joint graph (None is 0).
BareArg0(r) == [node |-> r, tuple |-> <<>>]
TupleArg0(r) == [node |-> 0, tuple |-> <<r, 0, 0, 0, 0>>]

Node(op, a, arg0, ret) == [op |-> op, args |-> a, arg0 |-> arg0, ret |-> ret]

\* What a lowering may hand back.
RetKinds ==
    { [box |-> "TensorBox", data |-> "StorageBox"],
      [box |-> "TensorBox", data |-> "View"],
      [box |-> "Pointwise", data |-> "None"] }

LongArgs == <<1, 1, 1, 1, 1, 1, 1, 1, 1>>

\* The nodes a graph may hold at position i (operands point at node 1 and at
\* the node just before).
NodesAt(i, gt) ==
    { Node("placeholder", <<>>, NoArg0, NoRet),
      Node("get_attr", <<>>, NoArg0, NoRet) }
    \cup { Node("call_function", <<1, i - 1>>, NoArg0, r) : r \in RetKinds }
    \cup { Node("call_function", LongArgs, NoArg0,
                [box |-> "TensorBox", data |-> "StorageBox"]) }
    \cup { Node("output", <<>>,
                IF gt = "JOINT_BWD" THEN TupleArg0(r) ELSE BareArg0(r), NoRet)
           : r \in {1, i - 1} }

Sentinels(gt) == IF gt = "JOINT_BWD" THEN JointPlaceholderInps ELSE FwdPlaceholderInps

IsBound(ns, r) == r >= 1 /\ r <= Len(ns) /\ ns[r].op \in {"placeholder", "call_function"}

\* Operands and outputs name nodes that come earlier; an output names a node
\* the traversal binds.
WellFormed(ns) ==
    \A i \in 1..Len(ns) :
        /\ ns[i].op = "call_function" => \A k \in 1..Len(ns[i].args) :
                                            ns[i].args[k] \in 1..(i - 1)
        /\ ns[i].op = "output" =>
              LET r == IF ns[i].arg0.tuple = <<>> THEN ns[i].arg0.node
                       ELSE ns[i].arg0.tuple[1]
              IN  r < i /\ IsBound(ns, r)

Placeholders(np) == [i \in 1..np |-> Node("placeholder", <<>>, NoArg0, NoRet)]

\* The graphs that extend a graph of gs by up to k more nodes.
RECURSIVE Extend(_, _, _)
Extend(gs, gt, k) ==
    IF k = 0 THEN gs
    ELSE gs \cup Extend(UNION { { Append(g, nd) :
                                   nd \in {x \in NodesAt(Len(g) + 1, gt) :
                                              WellFormed(Append(g, x))} }
                                : g \in gs }, gt, k - 1)

\* A prefix of np placeholders followed by up to MaxTail nodes of any kind.
GraphsOf(gt, np) == Extend({Placeholders(np)}, gt, MaxTail)

NumPlaceholders(ns) == Cardinality({i \in 1..Len(ns) : ns[i].op = "placeholder"})

NoBuffer == [name |-> "None", device |-> "None", dtype |-> "None",
             size |-> <<>>, data |-> <<"None", "None">>]

InlInit ==
    /\ graph_type \in SubgraphType
    /\ \E np \in {0} \cup (Len(Sentinels(graph_type))
                           ..(Len(Sentinels(graph_type)) + MaxLifted)) :
          nodes \in GraphsOf(graph_type, np)
    /\ placeholder_inps = Sentinels(graph_type)
    /\ LET n == Max(0, NumPlaceholders(nodes) - Len(placeholder_inps))
       IN  call_args = IF graph_type = "FWD" THEN FwdArgs(n) ELSE BwdArgs(n)
    /\ args = call_args
    /\ node_idx = 1
    /\ cnt = 0
    /\ env = <<>>
    /\ outcome = "running"
    /\ subgraph_buffer = NoBuffer
    /\ FwdIdle /\ BwdIdle /\ LowIdle

\* ---- one iteration of "for node in subgraph.graph_module.graph.nodes" ----
Running == outcome = "running" /\ node_idx <= Len(nodes)

Bind(p, v) == (p :> v) @@ env

\* tree_map(lambda x: env[x] if x in env else x, ...): an operand not in env
\* stays the fx node itself.
Resolve(x) ==
    IF x \in DOMAIN env THEN env[x]
    ELSE Value("Node", "None", "None", <<"node", ToString(x)>>)

Lowered(p, ret) == Value(ret.box, ret.data, "query_dtype", <<"lowered", ToString(p)>>)

PlaceholderStep ==
    /\ Running
    /\ nodes[node_idx].op = "placeholder"
    /\ LET is_lifted_input == cnt >= Len(placeholder_inps)
           lifted_input_index == index_to_other_buffers(cnt, graph_type)
       IN  IF is_lifted_input /\ ~InRange(args, lifted_input_index)
           THEN /\ outcome' = "IndexError"
                /\ UNCHANGED <<env, cnt, node_idx>>
           ELSE /\ env' = Bind(node_idx,
                               IF is_lifted_input THEN At(args, lifted_input_index)
                               ELSE At(placeholder_inps, cnt))
                /\ cnt' = cnt + 1
                /\ node_idx' = node_idx + 1
                /\ UNCHANGED outcome
    /\ UNCHANGED <<nodes, graph_type, call_args, placeholder_inps, args,
                   subgraph_buffer>>
    /\ UNCHANGED <<fwd_vars, bwd_vars, low_vars>>

CallFunctionStep ==
    /\ Running
    /\ nodes[node_idx].op = "call_function"
    /\ args' = [k \in 1..Len(nodes[node_idx].args) |-> Resolve(nodes[node_idx].args[k])]
    /\ env' = Bind(node_idx, Lowered(node_idx, nodes[node_idx].ret))
    /\ node_idx' = node_idx + 1
    /\ UNCHANGED <<nodes, graph_type, call_args, placeholder_inps, cnt, outcome,
                   subgraph_buffer>>
    /\ UNCHANGED <<fwd_vars, bwd_vars, low_vars>>

\* The selection with the joint-backward case forgotten: node.args[0] for
\* every role.
OutputNodeOf_AlwaysArg0(node, gt) == node.arg0.node

\* output_node = node.args[0] (FWD, JOINT_FWD) or node.args[0][0] (JOINT_BWD)
OutputNodeOf(node, gt) ==
    IF gt = "FWD" \/ gt = "JOINT_FWD" THEN node.arg0.node
    ELSE IF Len(node.arg0.tuple) >= 1 THEN node.arg0.tuple[1] ELSE 0

IsTensorBox(v) == v.box = "TensorBox"
IsStorageBox(v) == v.data = "StorageBox"

ComputedBuffer(v) ==
    [name |-> "None", device |-> v.device, dtype |-> v.dtype, size |-> v.size,
     data |-> v.inner]

OutputStep ==
    /\ Running
    /\ nodes[node_idx].op = "output"
    /\ LET output_node == OutputNodeOf(nodes[node_idx], graph_type)
       IN  IF output_node \notin DOMAIN env
           THEN outcome' = "KeyError" /\ UNCHANGED subgraph_buffer
           ELSE IF ~IsTensorBox(env[output_node]) \/ ~IsStorageBox(env[output_node])
           THEN outcome' = "AssertionError" /\ UNCHANGED subgraph_buffer
           ELSE /\ outcome' = "returned"
                /\ subgraph_buffer' = ComputedBuffer(env[output_node])
    /\ UNCHANGED <<nodes, graph_type, call_args, placeholder_inps, node_idx, cnt,
                   env, args>>
    /\ UNCHANGED <<fwd_vars, bwd_vars, low_vars>>

\* A node of any other op falls through the if / elif chain.
OtherOpStep ==
    /\ Running
    /\ nodes[node_idx].op \notin {"placeholder", "call_function", "output"}
    /\ node_idx' = node_idx + 1
    /\ UNCHANGED <<nodes, graph_type, call_args, placeholder_inps, cnt, env, args,
                   outcome, subgraph_buffer>>
    /\ UNCHANGED <<fwd_vars, bwd_vars, low_vars>>

\* raise ValueError("TemplatedAttention was passed a subgraph with no output node!")
RaiseNoOutput ==
    /\ outcome = "running"
    /\ node_idx > Len(nodes)
    /\ outcome' = "ValueError"
    /\ UNCHANGED <<nodes, graph_type, call_args, placeholder_inps, node_idx, cnt,
                   env, args, subgraph_buffer>>
    /\ UNCHANGED <<fwd_vars, bwd_vars, low_vars>>

build_subgraph_buffer ==
    \/ PlaceholderStep
    \/ CallFunctionStep
    \/ OutputStep
    \/ OtherOpStep
    \/ RaiseNoOutput

SpecInline == InlInit /\ [][build_subgraph_buffer]_vars

\* ---- properties of build_subgraph_buffer ----

\* query, key, value, subgraph, *other_buffers = args   (forward lowering)
\* query, ..., fw_graph, joint_graph, *other_buffers = args   (backward lowering)
other_buffers ==
    SubSeq(call_args, (IF graph_type = "FWD" THEN 5 ELSE 9), Len(call_args))

\* The 0-based rank of the placeholder at position p among the placeholders.
PlaceholderRank(p) ==
    Cardinality({i \in 1..(p - 1) : nodes[i].op = "placeholder"})

HasOutput == \E i \in 1..Len(nodes) : nodes[i].op = "output"
FirstOutput == CHOOSE i \in 1..Len(nodes) :
                  /\ nodes[i].op = "output"
                  /\ \A j \in 1..(i - 1) : nodes[j].op # "output"

\* C8: every placeholder is bound, the first len(sentinels) ones to the
\* sentinels in order and the k-th one after them to the (k - len(sentinels))-th
\* captured tensor of the original call's other_buffers, whatever the order of
\* the nodes of the graph.
C8_PlaceholdersBoundInOrder ==
    /\ outcome # "IndexError"
    /\ \A p \in DOMAIN env :
          nodes[p].op = "placeholder" =>
             LET k == PlaceholderRank(p)
             IN  env[p] = IF k < Len(placeholder_inps)
                          THEN placeholder_inps[k + 1]
                          ELSE other_buffers[k - Len(placeholder_inps) + 1]

\* C9: on a graph without an output node (the empty graph too) the call ends in
\* the ValueError and returns no buffer; on a graph with an output node the
\* call ends at the first output node (with the buffer or C10's contract
\* violation) and never with the ValueError.
C9_NoOutputRaisesValueError ==
    outcome # "running" =>
        IF ~HasOutput
        THEN outcome = "ValueError" /\ subgraph_buffer = NoBuffer
        ELSE /\ outcome \in {"returned", "AssertionError"}
             /\ node_idx = FirstOutput

\* C10: at the output node the value selected is the single output (FWD,
\* JOINT_FWD) or the first element of the output tuple (JOINT_BWD); a value that
\* is not a TensorBox over a StorageBox ends the call with the AssertionError
\* and no buffer, any other value with the one buffer made of its device,
\* dtype, size and data.
C10_OutputContract ==
    /\ outcome \in {"running", "ValueError", "IndexError"} => subgraph_buffer = NoBuffer
    /\ outcome \in {"returned", "AssertionError", "KeyError"} =>
          LET node == nodes[node_idx]
              sel == IF graph_type = "JOINT_BWD" THEN node.arg0.tuple[1]
                     ELSE node.arg0.node
          IN  /\ node.op = "output"
              /\ sel \in DOMAIN env
              /\ IF env[sel].box = "TensorBox" /\ env[sel].data = "StorageBox"
                 THEN /\ outcome = "returned"
                      /\ subgraph_buffer =
                            [name |-> "None", device |-> env[sel].device,
                             dtype |-> env[sel].dtype, size |-> env[sel].size,
                             data |-> env[sel].inner]
                 ELSE outcome = "AssertionError" /\ subgraph_buffer = NoBuffer

\* A joint-backward graph whose output tuple starts with a lowered value has
\* returned its buffer.
C10_Witness ==
    /\ outcome = "returned"
    /\ graph_type = "JOINT_BWD"
    /\ subgraph_buffer.data[1] = "lowered"

\* With the placeholders ahead of every call_function node the binding of C8
\* holds: the offsets of index_to_other_buffers match the two signatures.
PlaceholdersFirst ==
    \A i, j \in 1..Len(nodes) :
        nodes[i].op = "placeholder" /\ nodes[j].op = "call_function" => i < j
BindingWhenPlaceholdersFirst == PlaceholdersFirst => C8_PlaceholdersBoundInOrder

(***************************************************************************)
(*                     Arithmetic of the two kernels                       *)
(*                                                                         *)
(* A score is c + l * LOG2E with integers c and l (exact: the kernels      *)
(* multiply by the constant once), or -inf, +inf, NaN.  A value of the     *)
(* exponential domain is a sum of terms 2^(c + l * LOG2E) [* V[v]], or     *)
(* +inf or NaN.  Rounding is not modelled.                                 *)
(***************************************************************************)

\* 1.44269504 = LOG2E_NUM / LOG2E_DEN
LOG2E_NUM == 2254211
LOG2E_DEN == 1562500

Fin(c, l) == [t |-> "fin", c |-> c, l |-> l]
NegInf == [t |-> "ninf", c |-> 0, l |-> 0]
PosInf == [t |-> "pinf", c |-> 0, l |-> 0]
NaN == [t |-> "nan", c |-> 0, l |-> 0]

\* x * y for finite scores; the LOG2E^2 term x.l * y.l is zero in every
\* product the kernels form.
MulS(x, y) ==
    IF x.t = "fin" /\ y.t = "fin" THEN Fin(x.c * y.c, x.c * y.l + x.l * y.c)
    ELSE IF x.t = "nan" \/ y.t = "nan" THEN NaN
    ELSE IF x.t = "fin" THEN y ELSE x

Log2e == Fin(0, 1)
MulLog2e(x) == MulS(x, Log2e)

AddS(x, y) ==
    CASE x.t = "nan" \/ y.t = "nan" -> NaN
      [] x.t = "fin" /\ y.t = "fin" -> Fin(x.c + y.c, x.l + y.l)
      [] x.t = "ninf" /\ y.t = "pinf" -> NaN
      [] x.t = "pinf" /\ y.t = "ninf" -> NaN
      [] x.t = "fin" -> y
      [] OTHER -> x

NegS(x) ==
    CASE x.t = "fin" -> Fin(0 - x.c, 0 - x.l)
      [] x.t = "ninf" -> PosInf
      [] x.t = "pinf" -> NegInf
      [] OTHER -> NaN

SubS(x, y) == AddS(x, NegS(y))

\* The order of the reals on scores that are not NaN.
Scaled(x) == x.c * LOG2E_DEN + x.l * LOG2E_NUM
LeqS(x, y) ==
    \/ x.t = "ninf"
    \/ y.t = "pinf"
    \/ x.t = "fin" /\ y.t = "fin" /\ Scaled(x) <= Scaled(y)

\* tl.maximum
MaxS_Right(x, y) == y
MaxS(x, y) == IF LeqS(x, y) THEN y ELSE x

RECURSIVE MaxOfSeq(_)
MaxOfSeq(xs) ==
    IF Len(xs) = 1 THEN xs[1] ELSE MaxS(xs[1], MaxOfSeq(Tail(xs)))

\* ---- the exponential domain ----
NoV == 0 - 1
Term(c, l, v) == [c |-> c, l |-> l, v |-> v]
Sum(terms) == [t |-> "sum", terms |-> terms]
Zero == Sum(<<>>)
LInf == [t |-> "inf", terms |-> <<>>]
LNaN == [t |-> "nan", terms |-> <<>>]

\* tl.math.exp2
Exp2(x) ==
    CASE x.t = "nan" -> LNaN
      [] x.t = "ninf" -> Zero
      [] x.t = "pinf" -> LInf
      [] OTHER -> Sum(<<Term(x.c, x.l, NoV)>>)

IsZero(x) == x.t = "sum" /\ x.terms = <<>>

\* x * a, a being 0, one power of two, +inf or NaN
LMul(x, a) ==
    CASE x.t = "nan" \/ a.t = "nan" -> LNaN
      [] x.t = "inf" \/ a.t = "inf" ->
            (IF IsZero(x) \/ IsZero(a) THEN LNaN ELSE LInf)
      [] IsZero(a) -> Zero
      [] OTHER -> Sum([k \in 1..Len(x.terms) |->
                         Term(x.terms[k].c + a.terms[1].c,
                              x.terms[k].l + a.terms[1].l, x.terms[k].v)])

LAdd(x, y) ==
    CASE x.t = "nan" \/ y.t = "nan" -> LNaN
      [] x.t = "inf" \/ y.t = "inf" -> LInf
      [] OTHER -> Sum(x.terms \o y.terms)

RECURSIVE LSumSeq(_)
LSumSeq(xs) == IF xs = <<>> THEN Zero ELSE LAdd(xs[1], LSumSeq(Tail(xs)))

\* p * V[v] for one weight p and the value element at address v.
MulV(p, v) ==
    IF p.t = "sum"
    THEN Sum([k \in 1..Len(p.terms) |-> Term(p.terms[k].c, p.terms[k].l, v)])
    ELSE p

\* acc / l
Quot(num, den) == [t |-> "quot", num |-> num, den |-> den]
QNaN == [t |-> "nan", num |-> <<>>, den |-> <<>>]
QInf == [t |-> "inf", num |-> <<>>, den |-> <<>>]
Div(a, l) ==
    CASE a.t = "nan" \/ l.t = "nan" -> QNaN
      [] a.t = "inf" /\ l.t = "inf" -> QNaN
      [] a.t = "inf" -> QInf
      [] l.t = "inf" -> Quot(<<>>, <<Term(0, 0, NoV)>>)
      [] IsZero(l) -> (IF IsZero(a) THEN QNaN ELSE QInf)
      [] OTHER -> Quot(a.terms, l.terms)

IsZeroOutput(o) == o.t = "quot" /\ o.num = <<>>

\* m + tl.math.log2(l): the logsumexp as the pair it is computed from.
LseVal(t, m, terms) == [t |-> t, m |-> m, terms |-> terms]
LseNegInf == LseVal("ninf", NegInf, <<>>)
LsePosInf == LseVal("pinf", PosInf, <<>>)
LseNaN == LseVal("nan", NaN, <<>>)
AddLog2(m, l) ==
    CASE m.t = "nan" \/ l.t = "nan" -> LseNaN
      [] IsZero(l) -> (IF m.t = "pinf" THEN LseNaN ELSE LseNegInf)
      [] l.t = "inf" -> (IF m.t = "ninf" THEN LseNaN ELSE LsePosInf)
      [] m.t = "ninf" -> LseNegInf
      [] m.t = "pinf" -> LsePosInf
      [] OTHER -> LseVal("fin", m, l.terms)

(***************************************************************************)
(*                 flex_attention_template (forward kernel)                *)
(*                                                                         *)
(* One launch over contiguous Q, K, V of shape [Z, H, len, 1]              *)
(* (BLOCK_DMODEL = 1).  A grid unit is <<program_id(0), program_id(1)>>.   *)
(***************************************************************************)

\* Bounds of the launches explored.
MaxQLen == 3
MaxKVLen == 2
MaxUnits == 2

\* The [Z, H] shapes and the tile sizes explored.
Shapes == {<<1, 1>>, <<1, 2>>, <<2, 1>>, <<2, 2>>}
Blocks == {1, 2}

\* What a load outside its buffer may return.
Garbage == {0, 1}

\* The contents of Q, K and V by flat address.
QData(a) == 1 + (a % 3)
KData(a) == ((a * (a + 3)) \div 2) % 4

\* The score modifications explored (subgraph 0 of the template): identity,
\* a relative-position bias, a causal mask, and a mask that leaves query row 0
\* without any key.
ScoreMods == {"identity", "bias", "causal", "strict_causal"}
score_mod(mod, score, b, h, m, n) ==
    CASE mod = "identity" -> score
      [] mod = "bias" -> AddS(score, Fin(m - n, 0))
      [] mod = "causal" -> (IF n > m THEN NegInf ELSE score)
      [] mod = "strict_causal" -> (IF n >= m THEN NegInf ELSE score)

cdiv(a, b) == (a + b - 1) \div b

flex_attention_grid(batch_size, num_heads, num_queries, d_model, meta) ==
    << cdiv(num_queries, meta.BLOCK_M), batch_size * num_heads, 1 >>

\* The options flex_attention passes with every candidate.
FwdKernelOptions ==
    [SCORE_MOD_IS_LINEAR |-> TRUE, ROWS_GUARANTEED_SAFE |-> TRUE,
     OUTPUT_LOGSUMEXP |-> TRUE]

FwdLaunch(Z, H, Q_LEN, KV_LEN, BLOCK_M, BLOCK_N, mod, opts) ==
    [Z |-> Z, H |-> H, Q_LEN |-> Q_LEN, KV_LEN |-> KV_LEN,
     BLOCK_M |-> BLOCK_M, BLOCK_N |-> BLOCK_N, mod |-> mod,
     SCORE_MOD_IS_LINEAR |-> opts.SCORE_MOD_IS_LINEAR,
     ROWS_GUARANTEED_SAFE |-> opts.ROWS_GUARANTEED_SAFE,
     OUTPUT_LOGSUMEXP |-> opts.OUTPUT_LOGSUMEXP]

FwdGrid(f) == flex_attention_grid(f.Z, f.H, f.Q_LEN, 1, f)
FwdUnits(f) == (0..(FwdGrid(f)[1] - 1)) \X (0..(FwdGrid(f)[2] - 1))

\* Sizes of the buffers (elements).
QSize(f) == f.Z * f.H * f.Q_LEN
KVSize(f) == f.Z * f.H * f.KV_LEN

\* Strides of the contiguous [Z, H, len, 1] layouts.
stride_qh(f) == f.Q_LEN
stride_qm(f) == 1
stride_kh(f) == f.KV_LEN
stride_kn(f) == 1

\* ---- index arithmetic of the template ----
offs_m(start_m, BLOCK_M, i) == start_m * BLOCK_M + i
ModB(off_hz, H) == off_hz \div H
ModH(off_hz, H) == off_hz % H
ModN_NoStart(start_n, j) == j
ModN(start_n, j) == start_n + j

\* qk_scale after "if SCORE_MOD_IS_LINEAR: qk_scale *= 1.44269504"
qk_scale(f) == IF f.SCORE_MOD_IS_LINEAR THEN MulLog2e(Fin(1, 0)) ELSE Fin(1, 0)

\* tl.load of one element: the buffer's content, or garbage outside of it
\* (g gives the garbage of each address outside).
OutsideOf(size, addrs) == {a \in Range(addrs) : a < 0 \/ a >= size}
Data(buf, a) == IF buf = "Q" THEN QData(a) ELSE KData(a)
Load(buf, size, addr, g) ==
    IF addr >= 0 /\ addr < size THEN Data(buf, addr) ELSE g[addr]

\* Addresses of the rows of Q a unit loads through Q_block_ptr.
QAddrs(f, u) ==
    [i \in 1..f.BLOCK_M |->
        u[2] * stride_qh(f) + offs_m(u[1], f.BLOCK_M, i - 1) * stride_qm(f)]

\* Addresses of the K (V) tile at block-pointer offset off.
KVAddrs(f, u, off) ==
    [j \in 1..f.BLOCK_N |-> u[2] * stride_kh(f) + (off + j - 1) * stride_kn(f)]

\* post_mod_scores of one row of a tile: qs is the row's scaled q, ks the
\* loaded k of the BLOCK_N columns.
PostModScores(f, off_hz, m, qs, start_n, ks) ==
    [j \in 1..f.BLOCK_N |->
        LET qk == MulS(qs, Fin(ks[j], 0))
            pm == score_mod(f.mod, qk, ModB(off_hz, f.H), ModH(off_hz, f.H),
                            m, ModN(start_n, j - 1))
        IN  IF ~f.SCORE_MOD_IS_LINEAR THEN MulLog2e(pm) ELSE pm]

RowState(m, l, a) == [m_i |-> m, l_i |-> l, acc |-> a]

\* One loop iteration on one row: lines 266-285.
RowUpdate(f, st, scores, vaddrs) ==
    LET m_ij == MaxS(st.m_i, MaxOfSeq(scores))
        masked_out_rows == ~f.ROWS_GUARANTEED_SAFE /\ m_ij = NegInf
        alpha == IF masked_out_rows THEN Zero ELSE Exp2(SubS(st.m_i, m_ij))
        p == [j \in 1..Len(scores) |->
                IF masked_out_rows THEN Zero ELSE Exp2(SubS(scores[j], m_ij))]
    IN  RowState(m_ij,
                 LAdd(LMul(st.l_i, alpha), LSumSeq(p)),
                 LAdd(LMul(st.acc, alpha),
                      LSumSeq([j \in 1..Len(scores) |-> MulV(p[j], vaddrs[j])])))

RowInit == RowState(NegInf, Zero, Zero)

NoRegs == [q |-> <<>>, rows |-> <<>>, start_n |-> 0, K_off |-> 0, V_off |-> 0]

QUninit == [t |-> "uninit", num |-> <<>>, den |-> <<>>]
LseUninit == LseVal("uninit", NaN, <<>>)

FwdInit ==
    /\ \E zh \in Shapes, Q_LEN \in 1..MaxQLen, KV_LEN \in 1..MaxKVLen,
          BLOCK_M \in Blocks, BLOCK_N \in Blocks, mod \in ScoreMods :
          fwd = FwdLaunch(zh[1], zh[2], Q_LEN, KV_LEN, BLOCK_M, BLOCK_N, mod,
                          FwdKernelOptions)
    /\ Cardinality(FwdUnits(fwd)) <= MaxUnits
    /\ fpc = [u \in FwdUnits(fwd) |-> "entry"]
    /\ floc = [u \in FwdUnits(fwd) |-> NoRegs]
    /\ OUT = [a \in 0..(QSize(fwd) - 1) |-> QUninit]
    /\ LSE = [a \in 0..(QSize(fwd) - 1) |-> LseUninit]
    /\ fvisits = {}
    /\ fwrites = {}
    /\ InlIdle /\ BwdIdle /\ LowIdle

\* Lines 197-240: program ids, block pointers, the load of q and its scaling.
FwdEntry(u) ==
    /\ fpc[u] = "entry"
    /\ \E g \in [OutsideOf(QSize(fwd), QAddrs(fwd, u)) -> Garbage] :
          LET q == [i \in 1..fwd.BLOCK_M |->
                      MulS(Fin(Load("Q", QSize(fwd), QAddrs(fwd, u)[i], g), 0),
                           qk_scale(fwd))]
          IN  floc' = [floc EXCEPT ![u] =
                          [q |-> q, rows |-> [i \in 1..fwd.BLOCK_M |-> RowInit],
                           start_n |-> 0, K_off |-> 0, V_off |-> 0]]
    /\ fpc' = [fpc EXCEPT ![u] = IF 0 < fwd.KV_LEN THEN "loop" ELSE "store"]
    /\ UNCHANGED <<fwd, OUT, LSE, fvisits, fwrites>>
    /\ UNCHANGED <<inl_vars, bwd_vars, low_vars>>

\* Lines 241-288: one iteration of "for start_n in range(lo, hi, BLOCK_N)".
FwdLoopIter(u) ==
    /\ fpc[u] = "loop"
    /\ \E g \in [OutsideOf(KVSize(fwd), KVAddrs(fwd, u, floc[u].K_off)) -> Garbage] :
          LET start_m == u[1]
              off_hz == u[2]
              r == floc[u]
              ks == [j \in 1..fwd.BLOCK_N |->
                       Load("K", KVSize(fwd), KVAddrs(fwd, u, r.K_off)[j], g)]
              vaddrs == KVAddrs(fwd, u, r.V_off)
              scores == [i \in 1..fwd.BLOCK_M |->
                           PostModScores(fwd, off_hz,
                                         offs_m(start_m, fwd.BLOCK_M, i - 1),
                                         r.q[i], r.start_n, ks)]
              tile == (0..(fwd.BLOCK_M - 1)) \X (0..(fwd.BLOCK_N - 1))
              rows == [i \in 1..fwd.BLOCK_M |->
                         RowUpdate(fwd, r.rows[i], scores[i], vaddrs)]
          IN  /\ floc' = [floc EXCEPT ![u] =
                            [q |-> r.q,
                             rows |-> rows,
                             start_n |-> r.start_n + fwd.BLOCK_N,
                             K_off |-> r.K_off + fwd.BLOCK_N,
                             V_off |-> r.V_off + fwd.BLOCK_N]]
              /\ fvisits' = fvisits \cup
                    { [unit |-> u, start_n |-> r.start_n, i |-> ij[1], j |-> ij[2],
                       b |-> ModB(off_hz, fwd.H), h |-> ModH(off_hz, fwd.H),
                       m |-> offs_m(start_m, fwd.BLOCK_M, ij[1]),
                       n |-> ModN(r.start_n, ij[2]),
                       s |-> scores[ij[1] + 1][ij[2] + 1],
                       m_old |-> r.rows[ij[1] + 1].m_i,
                       m_new |-> rows[ij[1] + 1].m_i] : ij \in tile }
              /\ fpc' = [fpc EXCEPT ![u] =
                            IF r.start_n + fwd.BLOCK_N < fwd.KV_LEN THEN "loop"
                            ELSE "store"]
    /\ UNCHANGED <<fwd, OUT, LSE, fwrites>>
    /\ UNCHANGED <<inl_vars, bwd_vars, low_vars>>

\* Lines 290-305: the masked store of the output, the store of the logsumexp.
FwdStore(u) ==
    /\ fpc[u] = "store"
    /\ LET start_m == u[1]
           off_hz == u[2]
           r == floc[u]
           idx_z == ModB(off_hz, fwd.H)
           idx_h == ModH(off_hz, fwd.H)
           row(i) == offs_m(start_m, fwd.BLOCK_M, i - 1)
           out_addr(i) == (idx_z * fwd.H + idx_h) * fwd.Q_LEN + row(i)
           l_ptr(i) == off_hz * fwd.Q_LEN + row(i)
           stored == {i \in 1..fwd.BLOCK_M : row(i) < fwd.Q_LEN}
           lse_rows == IF fwd.OUTPUT_LOGSUMEXP THEN 1..fwd.BLOCK_M ELSE {}
           out_val(i) == Div(r.rows[i].acc, r.rows[i].l_i)
           lse_val(i) == AddLog2(r.rows[i].m_i, r.rows[i].l_i)
       IN  /\ OUT' = [a \in DOMAIN OUT |->
                        IF \E i \in stored : out_addr(i) = a
                        THEN out_val(CHOOSE i \in stored : out_addr(i) = a)
                        ELSE OUT[a]]
           /\ LSE' = [a \in DOMAIN LSE |->
                        IF \E i \in lse_rows : l_ptr(i) = a
                        THEN lse_val(CHOOSE i \in lse_rows : l_ptr(i) = a)
                        ELSE LSE[a]]
           /\ fwrites' = fwrites
                 \cup {[buf |-> "OUT", addr |-> out_addr(i), unit |-> u,
                        val |-> out_val(i)] : i \in stored}
                 \cup {[buf |-> "LSE", addr |-> l_ptr(i), unit |-> u,
                        val |-> [t |-> lse_val(i).t, num |-> lse_val(i).terms,
                                 den |-> <<lse_val(i).m>>]] : i \in lse_rows}
    /\ fpc' = [fpc EXCEPT ![u] = "done"]
    /\ UNCHANGED <<fwd, floc, fvisits>>
    /\ UNCHANGED <<inl_vars, bwd_vars, low_vars>>

FwdNext ==
    \E u \in DOMAIN fpc : FwdEntry(u) \/ FwdLoopIter(u) \/ FwdStore(u)

SpecFwd == FwdInit /\ [][FwdNext]_vars

FwdDone == \A u \in FwdUnits(fwd) : fpc[u] = "done"

\* ---- properties of the forward kernel ----

FwdDivisible == fwd.Q_LEN % fwd.BLOCK_M = 0 /\ fwd.KV_LEN % fwd.BLOCK_N = 0

\* The index space [0, Z) x [0, H) x [0, Q_LEN) x [0, KV_LEN).
FwdIndexSpace ==
    (0..(fwd.Z - 1)) \X (0..(fwd.H - 1)) \X (0..(fwd.Q_LEN - 1))
        \X (0..(fwd.KV_LEN - 1))

VisitsOf(bhmn) ==
    {e \in fvisits : <<e.b, e.h, e.m, e.n>> = bhmn}

RawScore(b, h, m, n) ==
    Fin(QData((b * fwd.H + h) * fwd.Q_LEN + m)
          * KData((b * fwd.H + h) * fwd.KV_LEN + n), 0)

\* LOG2E times the modified raw score: the exponent of the natural-log softmax
\* of the modified scores, in base 2.
ReferenceExponent(mod, b, h, m, n) ==
    MulLog2e(score_mod(mod, RawScore(b, h, m, n), b, h, m, n))

\* C2: for every score modification, in the kernel flex_attention emits, the
\* score that is exponentiated in base 2 for (b, h, m, n) is LOG2E times the
\* modified raw score.
C2_Base2RescaleOfModifiedScore ==
    \A e \in fvisits :
        <<e.b, e.h, e.m, e.n>> \in FwdIndexSpace =>
            e.s = ReferenceExponent(fwd.mod, e.b, e.h, e.m, e.n)

\* The same for the modifications that commute with a positive rescale of the
\* score (identity and the two masks).
RescaleHoldsWithoutBias == fwd.mod # "bias" => C2_Base2RescaleOfModifiedScore

\* The rows of the index space that unit u owns.
FwdRowsOf(u) ==
    {m \in 0..(fwd.Q_LEN - 1) : m \div fwd.BLOCK_M = u[1]}

\* Every modified score of query row m of batch-head off_hz is -inf.
FullyMasked(off_hz, m) ==
    \A e \in fvisits : e.unit[2] = off_hz /\ e.m = m => e.s = NegInf

\* C6: in the kernels flex_attention emits, a query row whose modified scores
\* are all -inf ends with the output 0 and the logsumexp -inf, never NaN.
C6_FullyMaskedRow ==
    \A u \in DOMAIN fpc :
        fpc[u] = "done" =>
            \A m \in FwdRowsOf(u) :
                FullyMasked(u[2], m) =>
                    /\ IsZeroOutput(OUT[u[2] * fwd.Q_LEN + m])
                    /\ LSE[u[2] * fwd.Q_LEN + m] = LseNegInf

\* The content of a buffer of the forward launch at an address, in the shape
\* the log of stores keeps.
FwdContent(buf, a) ==
    IF buf = "OUT" THEN OUT[a]
    ELSE [t |-> LSE[a].t, num |-> LSE[a].terms, den |-> <<LSE[a].m>>]

\* C7: the final contents of the output and the logsumexp do not depend on the
\* order in which the grid units run, for every query and key/value length.
\* A unit reads only the inputs of the launch, so its stores are the same in
\* every order; the final contents are the same in every order exactly when no
\* store is replaced by a different value.
C7_OrderIndependentResults ==
    FwdDone =>
        \A w \in fwrites :
            w.addr \in DOMAIN OUT => FwdContent(w.buf, w.addr) = w.val

(***************************************************************************)
(*            flex_attention_backward_template (backward kernel)           *)
(*                                                                         *)
(* One launch over contiguous Q, K, DO, DQ, DV of shape [Z, H, len, 1], V  *)
(* with one of VStrides, and LSE, DELTA of shape [Z, H, Q_LEN].  A grid    *)
(* unit is                                                                 *)
(* <<program_id(0), program_id(2)>> = <<pid, off_hz>>.  DO, DELTA and V    *)
(* enter the gradients by the address they are loaded from.                *)
(***************************************************************************)

\* Bounds of the backward launches explored.
MaxBwdQLen == 2
MaxBwdKVLen == 2
MaxBwdUnits == 4

\* The strides of the sequence dimension of V explored: Q and K are
\* contiguous [Z, H, len, 1]; V is contiguous, or every second element of a
\* [Z, H, KV_LEN, 2] storage.
VStrides == {1, 2}

flex_attention_backward_grid(batch_size, num_heads, num_queries, d_model, num_key_value, meta) ==
    << cdiv(num_queries, meta.BLOCK_M2) + cdiv(num_key_value, meta.BLOCK_N1),
       1, batch_size * num_heads >>

\* The option flex_attention_backward passes with every candidate.
BwdKernelOptions == [SCORE_MOD_IS_LINEAR |-> FALSE]

\* The tile sizes of one candidate: lines 792-795.
BwdTiles_Crossed(BLOCK1, BLOCK2) ==
    [BLOCK_M1 |-> BLOCK1, BLOCK_N1 |-> BLOCK2,
     BLOCK_M2 |-> BLOCK2, BLOCK_N2 |-> BLOCK1]
BwdTiles(BLOCK1, BLOCK2) ==
    [BLOCK_M1 |-> BLOCK1, BLOCK_N1 |-> BLOCK1,
     BLOCK_M2 |-> BLOCK2, BLOCK_N2 |-> BLOCK2]

\* One candidate of "for BLOCK1, BLOCK2, num_warps, num_stages in configs".
BwdLaunch(Z, H, Q_LEN, KV_LEN, vm, BLOCK1, BLOCK2, mod, opts) ==
    [Z |-> Z, H |-> H, Q_LEN |-> Q_LEN, KV_LEN |-> KV_LEN, stride_vm |-> vm,
     BLOCK_M1 |-> BwdTiles(BLOCK1, BLOCK2).BLOCK_M1,
     BLOCK_N1 |-> BwdTiles(BLOCK1, BLOCK2).BLOCK_N1,
     BLOCK_M2 |-> BwdTiles(BLOCK1, BLOCK2).BLOCK_M2,
     BLOCK_N2 |-> BwdTiles(BLOCK1, BLOCK2).BLOCK_N2, mod |-> mod,
     SCORE_MOD_IS_LINEAR |-> opts.SCORE_MOD_IS_LINEAR]

BwdGrid(f) == flex_attention_backward_grid(f.Z, f.H, f.Q_LEN, 1, f.KV_LEN, f)
BwdUnits(f) == (0..(BwdGrid(f)[1] - 1)) \X (0..(BwdGrid(f)[3] - 1))

NUM_KV_BLOCKS(f) == f.KV_LEN \div f.BLOCK_N1

stride_qz(f) == f.H * f.Q_LEN
stride_kz(f) == f.H * f.KV_LEN
stride_km(f) == 1
stride_vm(f) == f.stride_vm
stride_vh(f) == f.KV_LEN * stride_vm(f)
stride_vz(f) == f.H * stride_vh(f)
q_adj(f, off_hz) == stride_qh(f) * (off_hz % f.H) + stride_qz(f) * (off_hz \div f.H)
k_adj(f, off_hz) == stride_kh(f) * (off_hz % f.H) + stride_kz(f) * (off_hz \div f.H)
v_adj(f, off_hz) == stride_vh(f) * (off_hz % f.H) + stride_vz(f) * (off_hz \div f.H)
off_chz(f, off_hz) == off_hz * f.Q_LEN

\* ---- the logsumexp the backward launch is given ----

\* The forward launch of the same problem with tiles of one row and one key.
FwdOf(f) ==
    FwdLaunch(f.Z, f.H, f.Q_LEN, f.KV_LEN, 1, 1, f.mod, FwdKernelOptions)

\* post_mod_scores of the forward kernel at (off_hz, m, n).
FwdScore(f, off_hz, m, n) ==
    LET u == <<m, off_hz>>
        qs == MulS(Fin(QData(QAddrs(f, u)[1]), 0), qk_scale(f))
    IN  PostModScores(f, off_hz, m, qs, n, <<KData(KVAddrs(f, u, n)[1])>>)[1]

\* m_i, l_i, acc of row m of the forward kernel after the keys 0 .. n-1.
RECURSIVE FwdRowAfter(_, _, _, _)
FwdRowAfter(f, off_hz, m, n) ==
    IF n = 0 THEN RowInit
    ELSE RowUpdate(f, FwdRowAfter(f, off_hz, m, n - 1),
                   <<FwdScore(f, off_hz, m, n - 1)>>,
                   KVAddrs(f, <<m, off_hz>>, n - 1))

\* The logsumexp the forward kernel stores at flat address a.
LseOf(f, a) ==
    LET st == FwdRowAfter(f, a \div f.Q_LEN, a % f.Q_LEN, f.KV_LEN)
    IN  AddLog2(st.m_i, st.l_i)

\* tl.load of one element of LSE: the logsumexp of the forward kernel, or
\* outside of the buffer the word g gives for the address, read as a
\* logsumexp (-inf or 0).
LseGarbage(w) ==
    IF w = 0 THEN LseNegInf ELSE LseVal("fin", Fin(0, 0), <<Term(0, 0, NoV)>>)
LoadLse(f, addr, g) ==
    IF addr >= 0 /\ addr < QSize(f) THEN LseOf(FwdOf(f), addr)
    ELSE LseGarbage(g[addr])

\* ---- probability weights ----

\* A weight 2^e / (sum of den), or 0, +inf, NaN.
Weight(t, e, den) == [t |-> t, e |-> e, den |-> den]
WZero == Weight("zero", Fin(0, 0), <<>>)
WInf == Weight("inf", Fin(0, 0), <<>>)
WNaN == Weight("nan", Fin(0, 0), <<>>)

\* tl.math.exp2(post_mod_scores - lse)
BwdWeight(s, lse) ==
    CASE s.t = "nan" \/ lse.t = "nan" -> WNaN
      [] lse.t = "ninf" -> (IF s.t = "ninf" THEN WNaN ELSE WInf)
      [] lse.t = "pinf" -> (IF s.t = "pinf" THEN WNaN ELSE WZero)
      [] s.t = "ninf" -> WZero
      [] s.t = "pinf" -> WInf
      [] OTHER -> Weight("fin", SubS(s, lse.m), lse.terms)

\* p / l_i of the forward kernel, for p = exp2(score - m_i) with the final
\* m_i and l_i of the row.
FwdWeight(s, st) ==
    LET p == Exp2(SubS(s, st.m_i))
    IN  CASE p.t = "nan" \/ st.l_i.t = "nan" -> WNaN
          [] p.t = "inf" -> (IF st.l_i.t = "inf" THEN WNaN ELSE WInf)
          [] st.l_i.t = "inf" -> WZero
          [] IsZero(st.l_i) -> (IF IsZero(p) THEN WNaN ELSE WInf)
          [] IsZero(p) -> WZero
          [] OTHER -> Weight("fin", SubS(s, st.m_i), st.l_i.terms)

\* The joint modification (subgraph 1): the gradient of the modified score
\* with respect to the score, times grad_score_mod.
joint_score_mod(mod, score, b, h, m, n, grad_score_mod) ==
    CASE mod = "identity" -> grad_score_mod
      [] mod = "bias" -> grad_score_mod
      [] mod = "causal" -> (IF n > m THEN WZero ELSE grad_score_mod)
      [] mod = "strict_causal" -> (IF n >= m THEN WZero ELSE grad_score_mod)

\* One summand of a gradient accumulator: the weight ds (or p), the address
\* of the DO and DELTA row, of the V row and of the K (Q) row it multiplies.
Contrib(w, do, v, x) == [w |-> w, do |-> do, v |-> v, x |-> x]

\* Content of a gradient buffer element.
GradZeros == [t |-> "zeros", acc |-> <<>>]
GradUninit == [t |-> "uninit", acc |-> <<>>]
GradVal(acc) == [t |-> "val", acc |-> acc]

BwdNoRegs ==
    [phase |-> "none", start |-> 0, tile |-> <<>>, lse |-> <<>>, curr |-> 0,
     blk_idx |-> 0, kT_ptrs |-> 0, vT_ptrs |-> 0, qT_ptrs |-> 0,
     do_ptrs |-> 0, dq |-> <<>>, dk |-> <<>>, dv |-> <<>>]

BwdInit ==
    /\ \E zh \in Shapes, Q_LEN \in 1..MaxBwdQLen, KV_LEN \in 1..MaxBwdKVLen,
          vm \in VStrides, BLOCK1 \in Blocks, BLOCK2 \in Blocks, mod \in ScoreMods :
          bwd = BwdLaunch(zh[1], zh[2], Q_LEN, KV_LEN, vm, BLOCK1, BLOCK2, mod,
                          BwdKernelOptions)
    /\ Cardinality(BwdUnits(bwd)) <= MaxBwdUnits
    /\ bpc = [u \in BwdUnits(bwd) |-> "entry"]
    /\ bloc = [u \in BwdUnits(bwd) |-> BwdNoRegs]
    /\ DQ = [a \in 0..(QSize(bwd) - 1) |-> GradZeros]
    /\ DK = [a \in 0..(KVSize(bwd) - 1) |-> GradUninit]
    /\ DV = [a \in 0..(KVSize(bwd) - 1) |-> GradUninit]
    /\ bweights = {}
    /\ bwrites = {}
    /\ InlIdle /\ FwdIdle /\ LowIdle

\* Flat addresses of the rows offs_m2 of Q, DO and DQ (the same layout).
RowAddrs(f, off_hz, start, BLOCK) ==
    [i \in 1..BLOCK |-> q_adj(f, off_hz) + (start + i - 1) * stride_qm(f)]

\* Flat addresses of the rows offs_m2 (offs_m1) of LSE and DELTA.
LseAddrs(f, off_hz, start, BLOCK) ==
    [i \in 1..BLOCK |-> off_chz(f, off_hz) + start + i - 1]

\* Flat addresses of the tile a pointer register points to.
PtrAddrs(ptrs, BLOCK, stride) == [j \in 1..BLOCK |-> ptrs + (j - 1) * stride]

\* Lines 514-562 (pid >= NUM_KV_BLOCKS) and 514-538, 612-634 (else).
BwdEntry(u) ==
    /\ bpc[u] = "entry"
    /\ LET pid == u[1]
           off_hz == u[2]
       IN  IF pid >= NUM_KV_BLOCKS(bwd)
           THEN LET off_pid == pid - NUM_KV_BLOCKS(bwd)
                    start_m2 == off_pid * bwd.BLOCK_M2
                    qaddrs == RowAddrs(bwd, off_hz, start_m2, bwd.BLOCK_M2)
                    laddrs == LseAddrs(bwd, off_hz, start_m2, bwd.BLOCK_M2)
                    num_steps == bwd.KV_LEN \div bwd.BLOCK_N2
                IN  /\ \E g \in [OutsideOf(QSize(bwd), qaddrs \o laddrs) -> Garbage] :
                          bloc' = [bloc EXCEPT ![u] =
                            [phase |-> "dq", start |-> start_m2,
                             tile |-> [i \in 1..bwd.BLOCK_M2 |->
                                         Load("Q", QSize(bwd), qaddrs[i], g)],
                             lse |-> [i \in 1..bwd.BLOCK_M2 |->
                                         LoadLse(bwd, laddrs[i], g)],
                             curr |-> 0, blk_idx |-> 0,
                             kT_ptrs |-> k_adj(bwd, off_hz),
                             vT_ptrs |-> v_adj(bwd, off_hz),
                             qT_ptrs |-> 0, do_ptrs |-> 0,
                             dq |-> [i \in 1..bwd.BLOCK_M2 |-> <<>>],
                             dk |-> <<>>, dv |-> <<>>]]
                    /\ bpc' = [bpc EXCEPT ![u] =
                                 IF 0 < num_steps THEN "dq_loop" ELSE "dq_store"]
           ELSE LET start_n1 == pid * bwd.BLOCK_N1
                    kaddrs == PtrAddrs(k_adj(bwd, off_hz) + start_n1 * stride_km(bwd),
                                       bwd.BLOCK_N1, stride_km(bwd))
                    num_steps == bwd.Q_LEN \div bwd.BLOCK_M1
                IN  /\ \E g \in [OutsideOf(KVSize(bwd), kaddrs) -> Garbage] :
                          bloc' = [bloc EXCEPT ![u] =
                            [phase |-> "dkdv", start |-> start_n1,
                             tile |-> [j \in 1..bwd.BLOCK_N1 |->
                                         Load("K", KVSize(bwd), kaddrs[j], g)],
                             lse |-> <<>>, curr |-> 0, blk_idx |-> 0,
                             kT_ptrs |-> 0, vT_ptrs |-> 0,
                             qT_ptrs |-> q_adj(bwd, off_hz),
                             do_ptrs |-> q_adj(bwd, off_hz),
                             dq |-> <<>>,
                             dk |-> [j \in 1..bwd.BLOCK_N1 |-> <<>>],
                             dv |-> [j \in 1..bwd.BLOCK_N1 |-> <<>>]]]
                    /\ bpc' = [bpc EXCEPT ![u] =
                                 IF 0 < num_steps THEN "dkdv_loop" ELSE "dkdv_store"]
    /\ UNCHANGED <<bwd, DQ, DK, DV, bweights, bwrites>>
    /\ UNCHANGED <<inl_vars, fwd_vars, low_vars>>

\* post_mod_scores of one element of a backward tile: lines 567-584, 640-657.
BwdScore(f, off_hz, qk, m, n) ==
    LET pm == score_mod(f.mod, qk, off_hz \div f.H, off_hz % f.H, m, n)
    IN  IF ~f.SCORE_MOD_IS_LINEAR THEN MulLog2e(pm) ELSE pm

\* Lines 563-608: one iteration of the loop of the query phase.
BwdDQIter(u) ==
    /\ bpc[u] = "dq_loop"
    /\ LET off_hz == u[2]
           r == bloc[u]
           BM == bwd.BLOCK_M2
           BN == bwd.BLOCK_N2
           num_steps == bwd.KV_LEN \div BN
           kaddrs == PtrAddrs(r.kT_ptrs, BN, stride_km(bwd))
           vaddrs == PtrAddrs(r.vT_ptrs, BN, stride_vm(bwd))
           doaddrs == RowAddrs(bwd, off_hz, r.start, BM)
           m(i) == r.start + i - 1
           n(j) == r.curr + j - 1
       IN  \E g \in [OutsideOf(KVSize(bwd), kaddrs) -> Garbage] :
             LET kT == [j \in 1..BN |-> Load("K", KVSize(bwd), kaddrs[j], g)]
                 qk == [i \in 1..BM |-> [j \in 1..BN |->
                          MulS(Fin(r.tile[i], 0), Fin(kT[j], 0))]]
                 p == [i \in 1..BM |-> [j \in 1..BN |->
                         BwdWeight(BwdScore(bwd, off_hz, qk[i][j], m(i), n(j)),
                                   r.lse[i])]]
                 ds == [i \in 1..BM |-> [j \in 1..BN |->
                          joint_score_mod(bwd.mod, qk[i][j], off_hz \div bwd.H,
                                          off_hz % bwd.H, m(i), n(j), p[i][j])]]
             IN  /\ bloc' = [bloc EXCEPT ![u] =
                      [r EXCEPT
                         !.dq = [i \in 1..BM |->
                                   r.dq[i] \o [j \in 1..BN |->
                                     Contrib(ds[i][j], doaddrs[i], vaddrs[j],
                                             kaddrs[j])]],
                         !.curr = r.curr + BN,
                         !.blk_idx = r.blk_idx + 1,
                         !.kT_ptrs = r.kT_ptrs + BN * stride_km(bwd),
                         !.vT_ptrs = r.vT_ptrs + BN * stride_km(bwd)]]
                 /\ bweights' = bweights \cup
                      { [unit |-> u, phase |-> "dq", b |-> off_hz \div bwd.H,
                         h |-> off_hz % bwd.H, m |-> m(ij[1]), n |-> n(ij[2]),
                         p |-> p[ij[1]][ij[2]]] : ij \in (1..BM) \X (1..BN) }
                 /\ bpc' = [bpc EXCEPT ![u] =
                              IF r.blk_idx + 1 < num_steps THEN "dq_loop"
                              ELSE "dq_store"]
    /\ UNCHANGED <<bwd, DQ, DK, DV, bwrites>>
    /\ UNCHANGED <<inl_vars, fwd_vars, low_vars>>

\* The log entries of one store of vals at addrs by unit u.
StoreLog(buf, u, addrs, blk_idx) ==
    { [buf |-> buf, addr |-> addrs[i], unit |-> u, blk_idx |-> blk_idx,
       nth |-> Cardinality({w \in bwrites : w.buf = buf /\ w.addr = addrs[i]
                                              /\ w.unit = u})] :
      i \in DOMAIN addrs }

\* tl.store without a mask: the elements of buf after the store.
Stored(buf, addrs, accs) ==
    [a \in DOMAIN buf |->
        IF \E i \in DOMAIN addrs : addrs[i] = a
        THEN GradVal(accs[CHOOSE i \in DOMAIN addrs : addrs[i] = a])
        ELSE buf[a]]

\* Lines 609-611: write back dQ.
BwdDQStore(u) ==
    /\ bpc[u] = "dq_store"
    /\ LET r == bloc[u]
           dq_ptrs == RowAddrs(bwd, u[2], r.start, bwd.BLOCK_M2)
       IN  /\ DQ' = Stored(DQ, dq_ptrs, r.dq)
           /\ bwrites' = bwrites \cup StoreLog("DQ", u, dq_ptrs, r.blk_idx)
    /\ bpc' = [bpc EXCEPT ![u] = "done"]
    /\ UNCHANGED <<bwd, bloc, DK, DV, bweights>>
    /\ UNCHANGED <<inl_vars, fwd_vars, low_vars>>

\* Lines 635-686: one iteration of the loop of the key/value phase.
BwdDKDVIter(u) ==
    /\ bpc[u] = "dkdv_loop"
    /\ LET off_hz == u[2]
           r == bloc[u]
           BM == bwd.BLOCK_M1
           BN == bwd.BLOCK_N1
           num_steps == bwd.Q_LEN \div BM
           qaddrs == PtrAddrs(r.qT_ptrs, BM, stride_qm(bwd))
           doaddrs == PtrAddrs(r.do_ptrs, BM, stride_qm(bwd))
           laddrs == LseAddrs(bwd, off_hz, r.curr, BM)
           vaddrs == PtrAddrs(v_adj(bwd, off_hz) + r.start * stride_vm(bwd), BN,
                              stride_vm(bwd))
           m(i) == r.curr + i - 1
           n(j) == r.start + j - 1
       IN  \E g \in [OutsideOf(QSize(bwd), qaddrs \o laddrs) -> Garbage] :
             LET qT == [i \in 1..BM |-> Load("Q", QSize(bwd), qaddrs[i], g)]
                 lse == [i \in 1..BM |-> LoadLse(bwd, laddrs[i], g)]
                 qkT == [j \in 1..BN |-> [i \in 1..BM |->
                           MulS(Fin(r.tile[j], 0), Fin(qT[i], 0))]]
                 pT == [j \in 1..BN |-> [i \in 1..BM |->
                          BwdWeight(BwdScore(bwd, off_hz, qkT[j][i], m(i), n(j)),
                                    lse[i])]]
                 dsT == [j \in 1..BN |-> [i \in 1..BM |->
                           joint_score_mod(bwd.mod, qkT[j][i], off_hz \div bwd.H,
                                           off_hz % bwd.H, m(i), n(j), pT[j][i])]]
             IN  /\ bloc' = [bloc EXCEPT ![u] =
                      [r EXCEPT
                         !.dv = [j \in 1..BN |->
                                   r.dv[j] \o [i \in 1..BM |->
                                     Contrib(pT[j][i], doaddrs[i], NoV, NoV)]],
                         !.dk = [j \in 1..BN |->
                                   r.dk[j] \o [i \in 1..BM |->
                                     Contrib(dsT[j][i], doaddrs[i], vaddrs[j],
                                             qaddrs[i])]],
                         !.curr = r.curr + BM,
                         !.blk_idx = r.blk_idx + 1,
                         !.qT_ptrs = r.qT_ptrs + BM * stride_qm(bwd),
                         !.do_ptrs = r.do_ptrs + BM * stride_qm(bwd)]]
                 /\ bweights' = bweights \cup
                      { [unit |-> u, phase |-> "dkdv", b |-> off_hz \div bwd.H,
                         h |-> off_hz % bwd.H, m |-> m(ji[2]), n |-> n(ji[1]),
                         p |-> pT[ji[1]][ji[2]]] : ji \in (1..BN) \X (1..BM) }
                 /\ bpc' = [bpc EXCEPT ![u] =
                              IF r.blk_idx + 1 < num_steps THEN "dkdv_loop"
                              ELSE "dkdv_store"]
    /\ UNCHANGED <<bwd, DQ, DK, DV, bwrites>>
    /\ UNCHANGED <<inl_vars, fwd_vars, low_vars>>

\* Lines 688-696: the store of dv, and of dk through store_output with the
\* mask (index_n != -1) & (index_k != -1).
BwdDKDVStore(u) ==
    /\ bpc[u] = "dkdv_store"
    /\ LET off_hz == u[2]
           off_z == off_hz \div bwd.H
           off_h == off_hz % bwd.H
           r == bloc[u]
           BN == bwd.BLOCK_N1
           dv_ptrs == PtrAddrs(v_adj(bwd, off_hz) + r.start * stride_vm(bwd), BN,
                               stride_vm(bwd))
           index_n == [j \in 1..BN |-> r.start + j - 1]
           masked == {j \in 1..BN : index_n[j] # 0 - 1}
           dk_ptrs == [j \in 1..BN |->
                         (off_z * bwd.H + off_h) * bwd.KV_LEN + index_n[j]]
       IN  /\ DV' = Stored(DV, dv_ptrs, r.dv)
           /\ DK' = [a \in DOMAIN DK |->
                       IF \E j \in masked : dk_ptrs[j] = a
                       THEN GradVal(r.dk[CHOOSE j \in masked : dk_ptrs[j] = a])
                       ELSE DK[a]]
           /\ bwrites' = bwrites
                 \cup StoreLog("DV", u, dv_ptrs, r.blk_idx)
                 \cup StoreLog("DK", u, [j \in 1..BN |-> dk_ptrs[j]], r.blk_idx)
    /\ bpc' = [bpc EXCEPT ![u] = "done"]
    /\ UNCHANGED <<bwd, bloc, DQ, bweights>>
    /\ UNCHANGED <<inl_vars, fwd_vars, low_vars>>

BwdNext ==
    \E u \in DOMAIN bpc :
        \/ BwdEntry(u)
        \/ BwdDQIter(u)
        \/ BwdDQStore(u)
        \/ BwdDKDVIter(u)
        \/ BwdDKDVStore(u)

SpecBwd == BwdInit /\ [][BwdNext]_vars

BwdDone == \A u \in BwdUnits(bwd) : bpc[u] = "done"

\* ---- properties of the backward kernel ----

\* The index space [0, Z) x [0, H) x [0, Q_LEN) x [0, KV_LEN).
BwdIndexSpace ==
    (0..(bwd.Z - 1)) \X (0..(bwd.H - 1)) \X (0..(bwd.Q_LEN - 1))
        \X (0..(bwd.KV_LEN - 1))

\* The normalized weight of (b, h, m, n) in the forward kernel that
\* flex_attention emits for the problem of the backward launch.
ForwardWeight(b, h, m, n) ==
    LET f == FwdOf(bwd)
        off_hz == b * bwd.H + h
    IN  FwdWeight(FwdScore(f, off_hz, m, n),
                  FwdRowAfter(f, off_hz, m, f.KV_LEN))

\* C3: for every score modification and every (b, h, m, n) of the index
\* space, the weight 2^(scaled modified score - logsumexp) the backward kernel
\* rebuilds, in the key/value phase and in the query phase, is the normalized
\* weight of the forward kernel for the same (b, h, m, n).
C3_RebuiltWeightsEqualForward ==
    \A w \in bweights :
        <<w.b, w.h, w.m, w.n>> \in BwdIndexSpace =>
            w.p = ForwardWeight(w.b, w.h, w.m, w.n)

\* The same for the modifications that commute with a positive rescale of the
\* score.
RebuiltWeightsWithoutBias == bwd.mod # "bias" => C3_RebuiltWeightsEqualForward

\* C4: of the cdiv(Q_LEN, BLOCK_M2) + cdiv(KV_LEN, BLOCK_N1) units of the
\* first grid axis, the dispatch test sends the lower cdiv(KV_LEN, BLOCK_N1)
\* to the key/value phase, unit pid to the key/value tile pid, and the upper
\* cdiv(Q_LEN, BLOCK_M2) to the query phase, each to its own query tile, whose
\* first row is below Q_LEN.
C4_GridSplit ==
    \A u \in DOMAIN bpc :
        bpc[u] # "entry" =>
            LET kv_units == cdiv(bwd.KV_LEN, bwd.BLOCK_N1)
            IN  /\ u[1] < kv_units =>
                      /\ bloc[u].phase = "dkdv"
                      /\ bloc[u].start = u[1] * bwd.BLOCK_N1
                /\ u[1] >= kv_units =>
                      /\ bloc[u].phase = "dq"
                      /\ bloc[u].start = (u[1] - kv_units) * bwd.BLOCK_M2
                      /\ bloc[u].start < bwd.Q_LEN

\* The split is the one of the grid when BLOCK_N1 divides KV_LEN.
GridSplitWhenDivisible == bwd.KV_LEN % bwd.BLOCK_N1 = 0 => C4_GridSplit

\* The elements of a gradient buffer.
GradElements(buf) == IF buf = "DQ" THEN DOMAIN DQ ELSE DOMAIN DK

\* The number of iterations of the tile loop of a unit.
NumSteps(u) ==
    IF bloc[u].phase = "dq" THEN bwd.KV_LEN \div bwd.BLOCK_N2
    ELSE bwd.Q_LEN \div bwd.BLOCK_M1

\* C5: no element of GradQuery, GradKey or GradValue is written by two
\* different grid units; a unit writes an element once, after its tile loop
\* has finished; GradKey and GradValue are written by key/value-phase units,
\* GradQuery by query-phase units, each within its own batch-head.
C5_SingleWriter ==
    \A w \in bwrites :
        w.addr \in GradElements(w.buf) =>
            /\ \A x \in bwrites :
                  x.buf = w.buf /\ x.addr = w.addr => x.unit = w.unit
            /\ w.nth = 0
            /\ w.blk_idx = NumSteps(w.unit)
            /\ bloc[w.unit].phase = (IF w.buf = "DQ" THEN "dq" ELSE "dkdv")
            /\ w.unit[2] = w.addr \div (IF w.buf = "DQ" THEN bwd.Q_LEN
                                        ELSE bwd.KV_LEN)

\* GradKey and GradValue have one writer per element.
SingleWriterOfGradKeyValue ==
    \A w \in bwrites : \A x \in bwrites :
        w.buf # "DQ" /\ x.buf = w.buf /\ x.addr = w.addr => x.unit = w.unit

(***************************************************************************)
(*        flex_attention_backward: the candidates of the lowering          *)
(*                                                                         *)
(* Lines 762-799 and 812: the list of configurations, the loop that hands  *)
(* each of them to flex_attention_backward_template, and the template's    *)
(* tl.static_assert on the tile sizes of a candidate.                      *)
(***************************************************************************)

\* The queries and devices explored.
Dtypes == {"float32", "bfloat16"}
HeadDims == {64, 128, 256, 512}
Capabilities == {<<9, 0>>, <<8, 0>>, <<7, 5>>}

\* a >= b on device capabilities (tuples).
CapGeq(a, b) == a[1] > b[1] \/ (a[1] = b[1] /\ a[2] >= b[2])

get_default_config_bwd(query, capability) ==
    IF query.head_dim <= 256 /\ CapGeq(capability, <<9, 0>>)
    THEN (IF query.dtype = "float32" THEN <<64, 64, 4, 1>>
          ELSE <<128, 128, 4, 3>>)
    ELSE IF query.head_dim <= 256 /\ CapGeq(capability, <<8, 0>>)
    THEN <<64, 64, 4, 1>>
    ELSE <<16, 16, 4, 1>>

\* The configurations the four nested loops of lines 766-770 append, in order.
ExpandedConfigs_OneTileLoop ==
    LET B == <<32, 64>>
        W == <<4, 8>>
        S == <<1, 3>>
    IN  [k \in 1..8 |->
           << B[((k - 1) \div 4) + 1], B[((k - 1) \div 4) + 1],
              W[(((k - 1) \div 2) % 2) + 1], S[((k - 1) % 2) + 1] >>]
ExpandedConfigs ==
    LET B == <<32, 64>>
        W == <<4, 8>>
        S == <<1, 3>>
    IN  [k \in 1..16 |->
           << B[((k - 1) \div 8) + 1], B[(((k - 1) \div 4) % 2) + 1],
              W[(((k - 1) \div 2) % 2) + 1], S[((k - 1) % 2) + 1] >>]

\* The keyword arguments of maybe_append_choice for one configuration.
BwdChoice(cfg) ==
    [BLOCK_M1 |-> BwdTiles(cfg[1], cfg[2]).BLOCK_M1,
     BLOCK_N1 |-> BwdTiles(cfg[1], cfg[2]).BLOCK_N1,
     BLOCK_M2 |-> BwdTiles(cfg[1], cfg[2]).BLOCK_M2,
     BLOCK_N2 |-> BwdTiles(cfg[1], cfg[2]).BLOCK_N2,
     num_warps |-> cfg[3], num_stages |-> cfg[4],
     SCORE_MOD_IS_LINEAR |-> BwdKernelOptions.SCORE_MOD_IS_LINEAR]

\* tl.static_assert(BLOCK_M2 % BLOCK_N2 == 0) and
\* tl.static_assert(BLOCK_N1 % BLOCK_M1 == 0) of the template.
StaticAsserts(meta) ==
    /\ meta.BLOCK_M2 % meta.BLOCK_N2 = 0
    /\ meta.BLOCK_N1 % meta.BLOCK_M1 = 0

LowInit ==
    /\ low \in [dtype : Dtypes, head_dim : HeadDims,
                capability : Capabilities, max_autotune : BOOLEAN]
    /\ lpc = "configs"
    /\ configs = <<>>
    /\ cfg_i = 1
    /\ choices = <<>>
    /\ rejected = {}
    /\ InlIdle /\ FwdIdle /\ BwdIdle

\* Lines 762-770.
BuildConfigs ==
    /\ lpc = "configs"
    /\ configs' = <<get_default_config_bwd(low, low.capability)>>
                    \o (IF low.max_autotune THEN ExpandedConfigs ELSE <<>>)
    /\ lpc' = "choices"
    /\ UNCHANGED <<low, cfg_i, choices, rejected>>
    /\ UNCHANGED <<inl_vars, fwd_vars, bwd_vars>>

\* Lines 772-799: one iteration of the loop over configs.  A kernel whose
\* tile sizes fail a tl.static_assert is not emitted.
AppendChoice ==
    /\ lpc = "choices"
    /\ cfg_i <= Len(configs)
    /\ LET meta == BwdChoice(configs[cfg_i])
       IN  IF StaticAsserts(meta)
           THEN choices' = Append(choices, meta) /\ rejected' = rejected
           ELSE choices' = choices /\ rejected' = rejected \cup {meta}
    /\ cfg_i' = cfg_i + 1
    /\ UNCHANGED <<low, lpc, configs>>
    /\ UNCHANGED <<inl_vars, fwd_vars, bwd_vars>>

\* Lines 800-814: the choices go to autotune_select_algorithm.
SelectAlgorithm ==
    /\ lpc = "choices"
    /\ cfg_i > Len(configs)
    /\ lpc' = "done"
    /\ UNCHANGED <<low, configs, cfg_i, choices, rejected>>
    /\ UNCHANGED <<inl_vars, fwd_vars, bwd_vars>>

LowNext == BuildConfigs \/ AppendChoice \/ SelectAlgorithm

SpecLower == LowInit /\ [][LowNext]_vars

\* ---- properties of the candidates ----

\* The candidates handed to the template so far.
Handed == {BwdChoice(configs[k]) : k \in 1..(cfg_i - 1)}

\* C11: every candidate flex_attention_backward hands to the template, with
\* or without max_autotune and for every default configuration, has
\* BLOCK_M2 mod BLOCK_N2 = 0 and BLOCK_N1 mod BLOCK_M1 = 0; a candidate that
\* violates one of the two is rejected and no kernel is emitted for it.
C11_CandidatesDivisible ==
    /\ \A k \in 1..Len(configs) :
          /\ BwdChoice(configs[k]).BLOCK_M2 % BwdChoice(configs[k]).BLOCK_N2 = 0
          /\ BwdChoice(configs[k]).BLOCK_N1 % BwdChoice(configs[k]).BLOCK_M1 = 0
    /\ \A c \in Handed :
          IF c.BLOCK_M2 % c.BLOCK_N2 = 0 /\ c.BLOCK_N1 % c.BLOCK_M1 = 0
          THEN c \in Range(choices) /\ c \notin rejected
          ELSE c \in rejected /\ c \notin Range(choices)

\* An expanded search that handed all of its candidates to the template, the
\* default configuration being the one of the lower-tier devices.
C11_Witness ==
    /\ lpc = "done"
    /\ low.max_autotune
    /\ Len(configs) > 1
    /\ Len(choices) = Len(configs)
    /\ choices[1].BLOCK_M1 = 16

\* The extra candidates of an expanded search.
ExtraConfigs == {configs[k] : k \in 2..Len(configs)}

\* C12 as stated: with max_autotune the list is the default configuration
\* followed by 2 * 2 * 2 = 8 extra candidates, the product of two tile-size
\* choices, two num_warps choices and two num_stages choices; without it the
\* list is the default alone.
C12_EightExtraCandidates ==
    lpc # "configs" =>
        /\ configs[1] = get_default_config_bwd(low, low.capability)
        /\ IF low.max_autotune
           THEN /\ Len(configs) = 1 + 8
                /\ ExtraConfigs =
                     {<<t, t, w, s>> : t \in {32, 64}, w \in {4, 8}, s \in {1, 3}}
           ELSE Len(configs) = 1

\* C12 amended: with max_autotune the list is the default configuration
\* followed by 2 * 2 * 2 * 2 = 16 extra candidates, each once, the product of
\* two BLOCK1 choices, two BLOCK2 choices, two num_warps choices and two
\* num_stages choices, the same for every query and device; without it the
\* list is the default alone.
C12_SixteenExtraCandidates ==
    lpc # "configs" =>
        /\ configs[1] = get_default_config_bwd(low, low.capability)
        /\ IF low.max_autotune
           THEN /\ Len(configs) = 1 + 16
                /\ ExtraConfigs = {32, 64} \X {32, 64} \X {4, 8} \X {1, 3}
                /\ \A j \in 2..Len(configs) : \A k \in 2..Len(configs) :
                      configs[j] = configs[k] => j = k
           ELSE Len(configs) = 1

\* An expanded search whose list holds a candidate of two different tile
\* sizes.
C12_Witness ==
    /\ lpc = "done"
    /\ low.max_autotune
    /\ \E k \in 2..Len(configs) : configs[k] = <<32, 64, 8, 3>>

\* ---- the running row-max of the forward kernel ----

\* Of the score elements ev a unit has processed, those of its tile row i up
\* to the iteration at start_n.
ProcessedUpTo(ev, i, start_n) ==
    {e.s : e \in {x \in ev : x.i = i /\ x.start_n <= start_n}}

\* The maximum of a set of scores; -inf for the empty set.
MaxOfSet(S) ==
    IF S = {} THEN NegInf ELSE CHOOSE x \in S : \A y \in S : LeqS(y, x)

\* C13: a forward grid unit processes its key/value tiles in strictly
\* increasing start_n order (the tiles processed so far are those at 0,
\* BLOCK_N, ... below the start_n of the next one, and each iteration starts
\* from the row-max the previous one left); after each iteration the running
\* row-max m_i of every row is the maximum of the scaled modified scores of
\* all key columns processed so far for the row; m_i never decreases from one
\* iteration to the next.
C13_RunningRowMax ==
    \A u \in DOMAIN fpc :
        LET ev == {x \in fvisits : x.unit = u}
        IN  /\ {e.start_n : e \in ev} =
                  {k * fwd.BLOCK_N :
                     k \in 0..((floc[u].start_n \div fwd.BLOCK_N) - 1)}
            /\ \A e \in ev :
                  /\ e.m_new = MaxOfSet(ProcessedUpTo(ev, e.i, e.start_n))
                  /\ e.m_old = MaxOfSet(ProcessedUpTo(ev, e.i,
                                                     e.start_n - fwd.BLOCK_N))
                  /\ LeqS(e.m_old, e.m_new)
            /\ fpc[u] # "entry" =>
                  \A i \in 1..fwd.BLOCK_M :
                      floc[u].rows[i].m_i =
                          MaxOfSet(ProcessedUpTo(ev, i - 1, fwd.KV_LEN))

\* A unit past its second key/value tile, in a row whose maximum comes from
\* the first tile, and one whose maximum the second tile raised.
C13_Witness ==
    /\ \E e \in fvisits :
          /\ e.start_n > 0 /\ e.m_old.t = "fin"
          /\ e.m_new = e.m_old /\ e.s # e.m_new
    /\ \E e \in fvisits :
          /\ e.start_n > 0 /\ e.m_old.t = "fin" /\ e.m_new # e.m_old

\* ---- the accumulation of the gradients ----

\* How many summands of the accumulator acc come from DO row address a
\* (from K or Q row address a).
FromDo(acc, a) == Cardinality({k \in 1..Len(acc) : acc[k].do = a})
FromX(acc, a) == Cardinality({k \in 1..Len(acc) : acc[k].x = a})

\* The tile loop of unit u has finished.
LoopFinished(u) == bpc[u] \in {"dq_store", "dkdv_store", "done"}

\* C14: for every Q_LEN, KV_LEN and tile sizes, when the loop of a
\* key/value-phase unit has finished, the accumulators of each GradKey and
\* GradValue row of its tile hold the contribution of every query row in
\* [0, Q_LEN) exactly once and nothing else; when the loop of a query-phase
\* unit has finished, the accumulator of each GradQuery row of its tile holds
\* the contribution of every key/value position in [0, KV_LEN) exactly once
\* and nothing else.
C14_AccumulationCoverage ==
    \A u \in DOMAIN bpc :
        LoopFinished(u) =>
            LET r == bloc[u]
            IN  IF r.phase = "dq"
                THEN \A i \in 1..bwd.BLOCK_M2 :
                        r.start + i - 1 < bwd.Q_LEN =>
                            /\ Len(r.dq[i]) = bwd.KV_LEN
                            /\ \A n \in 0..(bwd.KV_LEN - 1) :
                                  FromX(r.dq[i], k_adj(bwd, u[2])
                                                   + n * stride_km(bwd)) = 1
                ELSE \A j \in 1..bwd.BLOCK_N1 :
                        /\ Len(r.dk[j]) = bwd.Q_LEN
                        /\ Len(r.dv[j]) = bwd.Q_LEN
                        /\ \A m \in 0..(bwd.Q_LEN - 1) :
                              /\ FromDo(r.dk[j], q_adj(bwd, u[2])
                                                  + m * stride_qm(bwd)) = 1
                              /\ FromDo(r.dv[j], q_adj(bwd, u[2])
                                                  + m * stride_qm(bwd)) = 1

\* The accumulation is complete when the loops' tile sizes divide the
\* lengths.
AccumulationWhenDivisible ==
    bwd.KV_LEN % bwd.BLOCK_N2 = 0 /\ bwd.Q_LEN % bwd.BLOCK_M1 = 0
        => C14_AccumulationCoverage

\* ---- the pointers of the query phase ----

\* The addresses of the key/value positions [n, n + BLOCK) in K and in V.
KPositions(f, off_hz, n, BLOCK) ==
    [j \in 1..BLOCK |-> k_adj(f, off_hz) + (n + j - 1) * stride_km(f)]
VPositions(f, off_hz, n, BLOCK) ==
    [j \in 1..BLOCK |-> v_adj(f, off_hz) + (n + j - 1) * stride_vm(f)]

\* C15: at every iteration of the loop of a query-phase unit, the tile read
\* through kT_ptrs and the tile read through vT_ptrs are both the key/value
\* positions [curr_n, curr_n + BLOCK_N2), whatever the sequence strides of K
\* and V are.
C15_ValueTileFollowsKeyTile ==
    \A u \in DOMAIN bpc :
        bpc[u] = "dq_loop" =>
            /\ PtrAddrs(bloc[u].kT_ptrs, bwd.BLOCK_N2, stride_km(bwd)) =
                  KPositions(bwd, u[2], bloc[u].curr, bwd.BLOCK_N2)
            /\ PtrAddrs(bloc[u].vT_ptrs, bwd.BLOCK_N2, stride_vm(bwd)) =
                  VPositions(bwd, u[2], bloc[u].curr, bwd.BLOCK_N2)

\* The two tiles agree when K and V have the same sequence stride.
ValueTileFollowsWhenStridesEqual ==
    stride_vm(bwd) = stride_km(bwd) => C15_ValueTileFollowsKeyTile

\* ---- the rows a forward unit writes ----

\* The store w lands on a row of the tile of its unit, below Q_LEN, in the
\* batch-head of its unit.
InOwnRows(w) ==
    LET start_m == w.unit[1]
        off_hz == w.unit[2]
        m == w.addr - off_hz * fwd.Q_LEN
    IN  /\ start_m * fwd.BLOCK_M <= m
        /\ m < (start_m + 1) * fwd.BLOCK_M
        /\ m < fwd.Q_LEN

\* C16: for every Q_LEN and BLOCK_M, every store of a forward grid unit
\* (start_m, off_hz) to the output and to the logsumexp buffer lands on a row
\* m with start_m * BLOCK_M <= m < min((start_m + 1) * BLOCK_M, Q_LEN) of the
\* batch-head off_hz, so on no element of another batch-head or of the rows
\* of another unit.
C16_WritesInOwnRows == \A w \in fwrites : InOwnRows(w)

\* The stores to the output are masked to the rows below Q_LEN.
OutputWritesInOwnRows == \A w \in fwrites : w.buf = "OUT" => InOwnRows(w)

\* The stores to the logsumexp stay in the unit's rows when BLOCK_M divides
\* Q_LEN.
WritesInOwnRowsWhenDivisible ==
    fwd.Q_LEN % fwd.BLOCK_M = 0 => C16_WritesInOwnRows

====
